---- MODULE Spec2Model ----
(***************************************************************************)
(* A model of api_tester.py: one run of the command-line HTTP tester, from *)
(* argument parsing to process exit.                                       *)
(*                                                                         *)
(* A Python str is a sequence of atoms.  An atom is one character, except  *)
(* that a few words which contain neither ":" nor whitespace nor JSON      *)
(* punctuation ("null", "Content-Type", ...) are kept as one atom.         *)
(* A Python Optional[str] is a sequence of length 0 (None) or 1.           *)
(* A Python dict is a sequence of <<key, value>> pairs with distinct keys, *)
(* in insertion order.                                                     *)
(* A value returned by json.loads is a record [t, n, items]:               *)
(*   t = "none" (null / None), "int" (n its value), "list" (items).        *)
(***************************************************************************)
EXTENDS Integers, Sequences, FiniteSets, TLC

VARIABLES argv, server, pc, headers, raw_body, json_body, final_headers,
          calls, outcome, out, exitCode

vars == <<argv, server, pc, headers, raw_body, json_body, final_headers,
          calls, outcome, out, exitCode>>

(***************************************************************************)
(* Bounds of the explored inputs.                                          *)
(***************************************************************************)
MaxTokLen == 3
MaxHdrs == 3
MaxText == 3

(***************************************************************************)
(* Strings.                                                                *)
(***************************************************************************)
StringsOver(alphabet, n) == UNION {[1..k -> alphabet] : k \in 0..n}

IsSpace(c) == c = " "

RECURSIVE LStrip(_)
LStrip(s) == IF s # <<>> /\ IsSpace(Head(s)) THEN LStrip(Tail(s)) ELSE s

RECURSIVE RStrip(_)
RStrip(s) ==
    IF s # <<>> /\ IsSpace(s[Len(s)]) THEN RStrip(SubSeq(s, 1, Len(s) - 1)) ELSE s

\* str.strip()
Strip(s) == RStrip(LStrip(s))

HasColon(s) == \E i \in 1..Len(s) : s[i] = ":"

FirstColon(s) == CHOOSE i \in 1..Len(s) : s[i] = ":" /\ \A j \in 1..(i - 1) : s[j] # ":"

\* the last colon (header.rsplit would split there)
SplitLast(s) == CHOOSE i \in 1..Len(s) : s[i] = ":" /\ \A j \in (i + 1)..Len(s) : s[j] # ":"

\* header.split(":", 1): one piece when there is no colon, else two.
Split1(s) ==
    IF HasColon(s)
    THEN <<SubSeq(s, 1, FirstColon(s) - 1), SubSeq(s, FirstColon(s) + 1, Len(s))>>
    ELSE <<s>>

(***************************************************************************)
(* dict                                                                    *)
(***************************************************************************)
DictHas(d, k) == \E i \in 1..Len(d) : d[i][1] = k

\* d[k] = v: an existing key keeps its position, a new key goes last.
DictSet(d, k, v) ==
    IF DictHas(d, k)
    THEN [i \in 1..Len(d) |-> IF d[i][1] = k THEN <<k, v>> ELSE d[i]]
    ELSE Append(d, <<k, v>>)

(***************************************************************************)
(* main(), lines 131-138: the -H tokens folded into the headers dict, and  *)
(* the warnings printed on the way.                                        *)
(***************************************************************************)
\* the entry had the token been split at its last colon
HeaderEntrySplitLast(tok) ==
    <<Strip(SubSeq(tok, 1, SplitLast(tok) - 1)), Strip(SubSeq(tok, SplitLast(tok) + 1, Len(tok)))>>

\* key, value = header.split(":", 1); key.strip(), value.strip()
HeaderEntry(tok) == <<Strip(Split1(tok)[1]), Strip(Split1(tok)[2])>>

RECURSIVE ParseHeaders(_, _)
ParseHeaders(toks, d) ==
    IF toks = <<>> THEN d
    ELSE IF Len(Split1(Head(toks))) = 2
         THEN ParseHeaders(Tail(toks),
                           DictSet(d, HeaderEntry(Head(toks))[1], HeaderEntry(Head(toks))[2]))
         ELSE ParseHeaders(Tail(toks), d)

RECURSIVE HeaderWarnings(_)
HeaderWarnings(toks) ==
    IF toks = <<>> THEN <<>>
    ELSE IF Len(Split1(Head(toks))) = 2
         THEN HeaderWarnings(Tail(toks))
         ELSE << <<"warn_header", Head(toks)>> >> \o HeaderWarnings(Tail(toks))

(***************************************************************************)
(* json.loads / json.load, restricted to null, non-negative integers and   *)
(* arrays: the text is scanned as Python's decoder scans it.               *)
(***************************************************************************)
PyNone == [t |-> "none", n |-> 0, items |-> <<>>]
PyInt(k) == [t |-> "int", n |-> k, items |-> <<>>]
PyList(xs) == [t |-> "list", n |-> 0, items |-> xs]

DigitChars == <<"0", "1", "2", "3", "4", "5", "6", "7", "8", "9">>
IsDigit(c) == \E i \in 1..Len(DigitChars) : DigitChars[i] = c
DigitValue(c) == (CHOOSE i \in 1..Len(DigitChars) : DigitChars[i] = c) - 1

RECURSIVE SkipWs(_, _)
SkipWs(s, i) == IF i <= Len(s) /\ IsSpace(s[i]) THEN SkipWs(s, i + 1) ELSE i

\* the end (exclusive) of the run of digits that starts at i
RECURSIVE DigitsEnd(_, _)
DigitsEnd(s, i) == IF i <= Len(s) /\ IsDigit(s[i]) THEN DigitsEnd(s, i + 1) ELSE i

RECURSIVE DecimalValue(_)
DecimalValue(ds) ==
    IF ds = <<>> THEN 0
    ELSE 10 * DecimalValue(SubSeq(ds, 1, Len(ds) - 1)) + DigitValue(ds[Len(ds)])

ParseFail == [ok |-> FALSE, val |-> PyNone, next |-> 0]
ParseOk(v, i) == [ok |-> TRUE, val |-> v, next |-> i]

RECURSIVE ParseValue(_, _), ParseItems(_, _, _)
\* the value that starts at position i
ParseValue(s, i) ==
    IF i > Len(s) THEN ParseFail
    ELSE IF s[i] = "null" THEN ParseOk(PyNone, i + 1)
    ELSE IF s[i] = "0" THEN ParseOk(PyInt(0), i + 1)
    ELSE IF IsDigit(s[i])
         THEN ParseOk(PyInt(DecimalValue(SubSeq(s, i, DigitsEnd(s, i) - 1))), DigitsEnd(s, i))
    ELSE IF s[i] = "["
         THEN IF SkipWs(s, i + 1) <= Len(s) /\ s[SkipWs(s, i + 1)] = "]"
              THEN ParseOk(PyList(<<>>), SkipWs(s, i + 1) + 1)
              ELSE ParseItems(s, SkipWs(s, i + 1), <<>>)
    ELSE ParseFail
\* the items of an array from position i on, acc the items already read
ParseItems(s, i, acc) ==
    LET v == ParseValue(s, i)
        k == SkipWs(s, v.next)
    IN IF ~v.ok \/ k > Len(s) THEN ParseFail
       ELSE IF s[k] = "]" THEN ParseOk(PyList(Append(acc, v.val)), k + 1)
       ELSE IF s[k] = "," THEN ParseItems(s, SkipWs(s, k + 1), Append(acc, v.val))
       ELSE ParseFail

ParseDocument(s) == ParseValue(s, SkipWs(s, 1))

\* json.loads(s) raises JSONDecodeError
IsJson(s) == ParseDocument(s).ok /\ SkipWs(s, ParseDocument(s).next) = Len(s) + 1

\* json.loads(s) when it does not raise
Loads(s) == ParseDocument(s).val

\* bool(x) of a decoded value
Truthy(v) == CASE v.t = "none" -> FALSE
               [] v.t = "int" -> v.n # 0
               [] v.t = "list" -> v.items # <<>>

(***************************************************************************)
(* json.dumps(value, indent=2, ensure_ascii=False)                         *)
(***************************************************************************)
IndentWidth == 2

RECURSIVE DecimalDigits(_)
DecimalDigits(k) ==
    IF k < 10 THEN <<DigitChars[k + 1]>>
    ELSE Append(DecimalDigits(k \div 10), DigitChars[(k % 10) + 1])

Spaces(k) == [i \in 1..k |-> " "]

RECURSIVE DumpsAt(_, _, _), DumpItems(_, _, _, _)
DumpsAt(v, level, width) ==
    CASE v.t = "none" -> <<"null">>
      [] v.t = "int" -> DecimalDigits(v.n)
      [] v.t = "list" ->
           IF v.items = <<>> THEN <<"[", "]">>
           ELSE <<"[", "\n">> \o DumpItems(v.items, 1, level + 1, width)
                \o <<"\n">> \o Spaces(width * level) \o <<"]">>
DumpItems(items, i, level, width) ==
    Spaces(width * level) \o DumpsAt(items[i], level, width)
    \o (IF i = Len(items) THEN <<>>
        ELSE <<",", "\n">> \o DumpItems(items, i + 1, level, width))

Dumps(v) == DumpsAt(v, 0, IndentWidth)

(***************************************************************************)
(* The inputs of a run.                                                    *)
(*   argv   : the command line: header (the -H tokens in order), data,     *)
(*            json_data (Optional[str]), file (Optional[[path, content]],  *)
(*            content the Optional text the file system holds at path),    *)
(*            verbose.                                                     *)
(*   server : what the transport will meet: a response (status, reason,    *)
(*            headers, body), a failure before any response, or any other  *)
(*            failure.                                                     *)
(***************************************************************************)
None == <<>>
Some(x) == <<x>>

HdrAtoms == {"a", ":", " "}
Tokens == StringsOver(HdrAtoms, MaxTokLen)

Tok(k, v) == <<k, ":">> \o v
NamedTokens == {Tok("a", <<"0">>), Tok("a", <<" ", "1">>), Tok("b", <<"0">>), <<"b">>,
                Tok("Content-Type", <<"text">>)}
HeaderLists == StringsOver(NamedTokens, MaxHdrs)

JsonAtoms == {"[", "]", "0", "1", " ", "null"}
Texts == StringsOver(JsonAtoms, MaxText)

Statuses == {100, 200, 399, 400, 599, 600}
Reasons == {"OK", "Not Found"}

Response(st, rs, b) ==
    [kind |-> "response", status |-> st, reason |-> rs,
     headers |-> << <<(<<"Server">>), (<<"x">>)>> >>, body |-> b]
Failure(k) == [kind |-> k, status |-> 0, reason |-> "", headers |-> <<>>, body |-> <<>>]

Ok200 == Response(200, "OK", <<"[", "1", "]">>)
FewServers == {Ok200, Response(404, "Not Found", <<"0">>),
               Failure("network"), Failure("other")}
Servers == {Response(st, rs, b) : st \in Statuses, rs \in Reasons, b \in Texts}
           \cup {Failure("network"), Failure("other")}

File(p, c) == [path |-> p, content |-> c]
Files == {File(<<"data.json">>, None), File(<<>>, None)}
         \cup {File(<<"data.json">>, Some(t)) : t \in Texts}

Argv(h, d, j, f, v) == [header |-> h, data |-> d, json_data |-> j, file |-> f, verbose |-> v]

\* one -H token of any shape
TokenRuns == {Argv(<<t>>, None, None, None, FALSE) : t \in Tokens}
\* several -H tokens, with and without a JSON body
HeaderRuns == {Argv(h, d, j, None, v) :
                   h \in HeaderLists,
                   d \in {None},
                   j \in {None, Some(<<"1">>), Some(<<"0">>)},
                   v \in BOOLEAN}
\* one body source of any content
BodyRuns == {Argv(h, d, None, None, v) :
                 h \in {<<>>}, d \in {Some(t) : t \in Texts}, v \in BOOLEAN}
            \cup {Argv(h, None, j, None, v) :
                 h \in {<<>>}, j \in {Some(t) : t \in Texts}, v \in BOOLEAN}
            \cup {Argv(h, None, None, Some(f), v) :
                 h \in {<<>>}, f \in Files, v \in BOOLEAN}
\* more than one body source
ClashRuns == {Argv(<<>>, d, j, f, FALSE) :
                  d \in {None, Some(<<"1">>)},
                  j \in {None, Some(<<"1">>)},
                  f \in {None, Some(File(<<"data.json">>, Some(<<"1">>)))}}
\* a few command lines, for every kind of outcome
OutcomeRuns == {Argv(h, d, j, None, v) :
                    h \in {<<>>, <<Tok("Content-Type", <<"text">>)>>},
                    d \in {None},
                    j \in {None, Some(<<"[", "1", "]">>)},
                    v \in BOOLEAN}
               \cup {Argv(<<>>, Some(<<"1">>), None, None, v) : v \in BOOLEAN}

Init ==
    /\ \/ argv \in TokenRuns \cup HeaderRuns \cup BodyRuns \cup ClashRuns /\ server = Ok200
       \/ argv \in OutcomeRuns /\ server \in FewServers
       \/ argv = Argv(<<>>, None, None, None, FALSE) /\ server \in Servers
    /\ pc = "start"
    /\ headers = <<>>
    /\ raw_body = None
    /\ json_body = PyNone
    /\ final_headers = <<>>
    /\ calls = <<>>
    /\ outcome = "none"
    /\ out = <<>>
    /\ exitCode = None

Exit(code) == pc' = "exited" /\ exitCode' = Some(code)

(***************************************************************************)
(* main(), lines 98-129: argparse.  -d, -j and -f are one mutually         *)
(* exclusive group: two of them on the command line end the run with the   *)
(* usage error.                                                            *)
(***************************************************************************)
NumSources(a) == Len(a.data) + Len(a.json_data) + Len(a.file)

ParseArgs ==
    /\ pc = "start"
    /\ IF NumSources(argv) > 1
       THEN /\ out' = Append(out, <<"usage_error">>)
            /\ Exit(2)
       ELSE /\ pc' = "headers"
            /\ UNCHANGED <<out, exitCode>>
    /\ UNCHANGED <<argv, server, headers, raw_body, json_body, final_headers, calls, outcome>>

(***************************************************************************)
(* main(), lines 131-138                                                   *)
(***************************************************************************)
BuildHeaders ==
    /\ pc = "headers"
    /\ headers' = ParseHeaders(argv.header, <<>>)
    /\ out' = out \o HeaderWarnings(argv.header)
    /\ pc' = "body"
    /\ UNCHANGED <<argv, server, raw_body, json_body, final_headers, calls, outcome, exitCode>>

(***************************************************************************)
(* main(), lines 140-158                                                   *)
(***************************************************************************)
\* `if args.json_data:` / `elif args.file:` : None and "" are both false
StrGiven(o) == o # None /\ o[1] # <<>>
FileGiven(o) == o # None /\ o[1].path # <<>>

ResolveBody ==
    /\ pc = "body"
    /\ raw_body' = argv.data
    /\ IF StrGiven(argv.json_data)
       THEN IF IsJson(argv.json_data[1])
            THEN /\ json_body' = Loads(argv.json_data[1])
                 /\ pc' = "request"
                 /\ UNCHANGED <<out, exitCode>>
            ELSE /\ out' = Append(out, <<"err_json_arg">>)
                 /\ Exit(1)
                 /\ UNCHANGED json_body
       ELSE IF FileGiven(argv.file)
       THEN IF argv.file[1].content = None
            THEN /\ out' = Append(out, <<"err_file_missing", argv.file[1].path>>)
                 /\ Exit(1)
                 /\ UNCHANGED json_body
            ELSE IF IsJson(argv.file[1].content[1])
            THEN /\ json_body' = Loads(argv.file[1].content[1])
                 /\ pc' = "request"
                 /\ UNCHANGED <<out, exitCode>>
            ELSE /\ out' = Append(out, <<"err_file_json", argv.file[1].path>>)
                 /\ Exit(1)
                 /\ UNCHANGED json_body
       ELSE /\ pc' = "request"
            /\ UNCHANGED <<json_body, out, exitCode>>
    /\ UNCHANGED <<argv, server, headers, final_headers, calls, outcome>>

(***************************************************************************)
(* make_request(), lines 26-49: the preview (verbose) or the one-line      *)
(* notice.  Nothing is sent here.                                          *)
(***************************************************************************)
ContentType == <<"Content-Type">>
ApplicationJson == <<"application/json">>

\* `if data:` : None and "" are both false
DataTruthy(d) == d # None /\ d[1] # <<>>

\* lines 31-33: final_headers, a copy of headers plus the automatic entry
FinalHeaders(h, j) == IF Truthy(j) THEN DictSet(h, ContentType, ApplicationJson) ELSE h

\* line 31 without .copy(): final_headers would be the caller's dict itself
HeadersAliased(h, j) == FinalHeaders(h, j)

\* line 31: headers.copy() leaves the caller's dict as it was
HeadersAfterPreview(h, j) == h

RECURSIVE PreviewHeaderLines(_)
PreviewHeaderLines(d) ==
    IF d = <<>> THEN <<>>
    ELSE << <<"preview_header", Head(d)[1], Head(d)[2]>> >> \o PreviewHeaderLines(Tail(d))

\* lines 40-45
PreviewBody(d, j) ==
    IF DataTruthy(d) THEN << <<"preview_raw", d[1]>> >>
    ELSE IF Truthy(j) THEN << <<"preview_json", Dumps(j)>> >>
    ELSE <<>>

Preview ==
    /\ pc = "request"
    /\ IF argv.verbose
       THEN /\ final_headers' = FinalHeaders(headers, json_body)
            /\ headers' = HeadersAfterPreview(headers, json_body)
            /\ out' = out \o << <<"preview_banner">>, <<"preview_request_line">> >>
                          \o PreviewHeaderLines(FinalHeaders(headers, json_body))
                          \o PreviewBody(raw_body, json_body)
                          \o << <<"preview_end">> >>
       ELSE /\ out' = Append(out, <<"sending">>)
            /\ UNCHANGED <<final_headers, headers>>
    /\ pc' = "transport"
    /\ UNCHANGED <<argv, server, raw_body, json_body, calls, outcome, exitCode>>

(***************************************************************************)
(* make_request(), lines 55-61: requests.request(...) once, then           *)
(* response.raise_for_status().                                            *)
(***************************************************************************)
\* server errors only
IsErrorStatusFrom500(st) == 500 <= st /\ st < 600

\* Response.raise_for_status() raises HTTPError
IsErrorStatus(st) == 400 <= st /\ st < 600

Call(h, d, j) == [headers |-> h, data |-> d, json |-> j]

\* the arguments of requests.request, lines 55-60
TransportCall == Call(headers, raw_body, json_body)

Transport ==
    /\ pc = "transport"
    /\ calls' = Append(calls, TransportCall)
    /\ outcome' = CASE server.kind = "network" -> "RequestException"
                    [] server.kind = "other" -> "Exception"
                    [] server.kind = "response" ->
                         IF IsErrorStatus(server.status) THEN "HTTPError" ELSE "response"
    /\ pc' = IF outcome' = "response" THEN "render" ELSE "except"
    /\ UNCHANGED <<argv, server, headers, raw_body, json_body, final_headers, out, exitCode>>

(***************************************************************************)
(* make_request(), lines 66-85: the response as printed.                   *)
(***************************************************************************)
RECURSIVE ResponseHeaderLines(_)
ResponseHeaderLines(d) ==
    IF d = <<>> THEN <<>>
    ELSE << <<"response_header", Head(d)[1], Head(d)[2]>> >> \o ResponseHeaderLines(Tail(d))

\* lines 77-85 without the test of line 82
BodyBlockEmptyLine(text) ==
    IF IsJson(text) THEN <<"body_json", Dumps(Loads(text))>> ELSE <<"body_raw", text>>

\* lines 77-85
BodyBlock(text) ==
    IF IsJson(text) THEN <<"body_json", Dumps(Loads(text))>>
    ELSE IF text # <<>> THEN <<"body_raw", text>>
    ELSE <<"body_none">>

Render ==
    /\ pc = "render"
    /\ out' = out \o << <<"success_banner">>,
                        <<"status_line", server.status, server.reason>> >>
                  \o ResponseHeaderLines(server.headers)
                  \o << BodyBlock(server.body) >>
    /\ pc' = "return"
    /\ UNCHANGED <<argv, server, headers, raw_body, json_body, final_headers, calls, outcome,
                   exitCode>>

(***************************************************************************)
(* make_request(), lines 87-94: the except clauses, tried in order.        *)
(***************************************************************************)
\* issubclass(exc, cls) among HTTPError < RequestException < Exception
IsSubclass(exc, cls) ==
    \/ cls = "Exception"
    \/ cls = "RequestException" /\ exc \in {"RequestException", "HTTPError"}
    \/ cls = "HTTPError" /\ exc = "HTTPError"

\* the clauses without line 93
ExceptClausesNoCatchAll == <<"HTTPError", "RequestException">>

\* the clauses with lines 91 and 87 exchanged
ExceptClausesReordered == <<"RequestException", "HTTPError", "Exception">>

ExceptClauses == <<"HTTPError", "RequestException", "Exception">>

\* the first clause that matches, "uncaught" when none does
Handler(exc) ==
    IF \E i \in 1..Len(ExceptClauses) : IsSubclass(exc, ExceptClauses[i])
    THEN ExceptClauses[CHOOSE i \in 1..Len(ExceptClauses) :
                           /\ IsSubclass(exc, ExceptClauses[i])
                           /\ \A j \in 1..(i - 1) : ~IsSubclass(exc, ExceptClauses[j])]
    ELSE "uncaught"

\* `if e.response:` : bool(Response) is Response.ok, false for an error status
ResponseTruthy(r) == ~IsErrorStatus(r.status)

\* lines 88-90
HttpErrorLines(r) ==
    << <<"http_error", r.status, r.reason>> >>
    \o (IF ResponseTruthy(r) THEN << <<"http_error_body", r.body>> >> ELSE <<>>)

Except ==
    /\ pc = "except"
    /\ CASE Handler(outcome) = "HTTPError" ->
              out' = out \o HttpErrorLines(server) /\ pc' = "return" /\ UNCHANGED exitCode
         [] Handler(outcome) = "RequestException" ->
              out' = Append(out, <<"network_error">>) /\ pc' = "return" /\ UNCHANGED exitCode
         [] Handler(outcome) = "Exception" ->
              out' = Append(out, <<"unknown_error">>) /\ pc' = "return" /\ UNCHANGED exitCode
         [] Handler(outcome) = "uncaught" ->
              out' = Append(out, <<"traceback">>) /\ Exit(1)
    /\ UNCHANGED <<argv, server, headers, raw_body, json_body, final_headers, calls, outcome>>

(***************************************************************************)
(* main(), lines 160-169: make_request returned, the process ends.         *)
(***************************************************************************)
Return ==
    /\ pc = "return"
    /\ Exit(0)
    /\ UNCHANGED <<argv, server, headers, raw_body, json_body, final_headers, calls, outcome,
                   out>>

Next ==
    \/ ParseArgs
    \/ BuildHeaders
    \/ ResolveBody
    \/ Preview
    \/ Transport
    \/ Render
    \/ Except
    \/ Return

Spec == Init /\ [][Next]_vars

(***************************************************************************)
(* What the claims speak of.                                               *)
(***************************************************************************)
Has(tag) == \E i \in 1..Len(out) : out[i][1] = tag
Count(tags) == Cardinality({i \in 1..Len(out) : out[i][1] \in tags})
Returned == pc \in {"return", "exited"}
Exited == pc = "exited"
ErrorBanners == {"http_error", "network_error", "unknown_error"}
OutcomeBanners == ErrorBanners \cup {"success_banner"}
BodyBlocks == {"body_json", "body_raw", "body_none"}
GotResponse == calls # <<>> /\ server.kind = "response"

\* C1: whenever the response's status is in 400-599 the run prints the error
\* banner with the status code and the reason and, right after it, the raw body
\* text of the response.
C1_ErrorBodyAlwaysPrinted ==
    (Returned /\ GotResponse /\ server.status \in 400..599) =>
        \E i \in 1..(Len(out) - 1) :
            /\ out[i][1] = "http_error"
            /\ out[i] = <<"http_error", server.status, server.reason>>
            /\ out[i + 1][1] = "http_error_body"
            /\ out[i + 1] = <<"http_error_body", server.body>>

BadJsonArg == argv.json_data # None /\ ~IsJson(argv.json_data[1])
MissingFile == argv.file # None /\ argv.file[1].content = None
BadJsonFile == /\ argv.file # None
               /\ argv.file[1].content # None
               /\ ~IsJson(argv.file[1].content[1])

\* C2: a run whose -j value is not valid JSON, or whose -f file does not exist
\* or does not hold valid JSON, never calls the transport, and ends with a
\* diagnostic and exit code 1.
C2_BadJsonInputExitsOne ==
    (NumSources(argv) = 1 /\ (BadJsonArg \/ MissingFile \/ BadJsonFile)) =>
        /\ calls = <<>>
        /\ pc \notin {"transport", "render", "except", "return"}
        /\ Exited =>
             /\ exitCode = Some(1)
             /\ Has("err_json_arg") \/ Has("err_file_missing") \/ Has("err_file_json")

\* C3: a run that reached the transport step goes on to end with exit code 0
\* whatever the outcome was; a non-zero exit code is only seen on runs that
\* never called the transport.
C3_ExitZeroOnceTransportReached ==
    /\ (calls # <<>> /\ ~Exited) =>
          /\ pc \in {"render", "except", "return"}
          /\ pc = "render" => outcome = "response"
          /\ pc = "except" => outcome \in {"HTTPError", "RequestException", "Exception"}
    /\ (calls # <<>> /\ Exited) => exitCode = Some(0)
    /\ (exitCode # None /\ exitCode # Some(0)) => (calls = <<>> /\ pc \notin {"return"})

C3_Witness ==
    /\ Exited
    /\ Len(calls) = 1
    /\ outcome = "Exception"
    /\ Has("unknown_error")
    /\ exitCode = Some(0)

HeadersBuilt == NumSources(argv) <= 1 /\ pc \notin {"start", "headers"}

AllSpaces(s) == \A i \in 1..Len(s) : s[i] = " "
\* x is y without its leading and trailing whitespace
IsTrimOf(x, y) ==
    /\ x = <<>> \/ (x[1] # " " /\ x[Len(x)] # " ")
    /\ \E a \in 0..Len(y) : \E b \in 0..(Len(y) - a) :
           /\ AllSpaces(SubSeq(y, 1, a))
           /\ AllSpaces(SubSeq(y, Len(y) - b + 1, Len(y)))
           /\ x = SubSeq(y, a + 1, Len(y) - b)
\* <<k, v>> is what the token says: it splits at a colon with no colon before it
IsEntryOf(e, tok) ==
    \E i \in 1..Len(tok) :
        /\ tok[i] = ":"
        /\ \A j \in 1..(i - 1) : tok[j] # ":"
        /\ IsTrimOf(e[1], SubSeq(tok, 1, i - 1))
        /\ IsTrimOf(e[2], SubSeq(tok, i + 1, Len(tok)))
ColonTokens == {i \in 1..Len(argv.header) : \E j \in 1..Len(argv.header[i]) : argv.header[i][j] = ":"}
PlainTokens == (1..Len(argv.header)) \ ColonTokens
\* k is the key the token says
IsKeyOf(k, tok) ==
    \E i \in 1..Len(tok) :
        /\ tok[i] = ":"
        /\ \A j \in 1..(i - 1) : tok[j] # ":"
        /\ IsTrimOf(k, SubSeq(tok, 1, i - 1))
TokensOfKey(k) == {i \in ColonTokens : IsKeyOf(k, argv.header[i])}
Min(S) == CHOOSE x \in S : \A y \in S : x <= y
Max(S) == CHOOSE x \in S : \A y \in S : x >= y
Warnings == {i \in 1..Len(out) : out[i][1] = "warn_header"}

\* C5 as claimed: the mapping is the list of all tokens that contain a colon,
\* split at the first colon and trimmed, in command-line order.
C5_MappingIsEveryColonToken ==
    HeadersBuilt =>
        /\ Len(headers) = Cardinality(ColonTokens)
        /\ \A p \in 1..Len(headers) :
               \E i \in ColonTokens :
                   /\ Cardinality({j \in ColonTokens : j <= i}) = p
                   /\ IsEntryOf(headers[p], argv.header[i])

\* C5 amended: the mapping has one entry per distinct trimmed key of the tokens
\* that contain a colon (split at the first colon only, key and value trimmed);
\* the entry holds the value of the last token with its key, and the entries
\* are ordered by the first token with their key.  Every token without a colon
\* is skipped with a warning, in order, and the run goes on to the request.
C5_MappingByKey ==
    HeadersBuilt =>
        /\ \A p, q \in 1..Len(headers) : headers[p][1] = headers[q][1] => p = q
        /\ \A i \in ColonTokens : \E p \in 1..Len(headers) : i \in TokensOfKey(headers[p][1])
        /\ \A p \in 1..Len(headers) :
               /\ TokensOfKey(headers[p][1]) # {}
               /\ IsEntryOf(headers[p], argv.header[Max(TokensOfKey(headers[p][1]))])
        /\ \A p, q \in 1..Len(headers) :
               p < q => Min(TokensOfKey(headers[p][1])) < Min(TokensOfKey(headers[q][1]))
        /\ Cardinality(Warnings) = Cardinality(PlainTokens)
        /\ \A w \in Warnings :
               \E i \in PlainTokens :
                   /\ Cardinality({j \in PlainTokens : j <= i}) = Cardinality({x \in Warnings : x <= w})
                   /\ out[w] = <<"warn_header", argv.header[i]>>
        /\ (Exited /\ NumSources(argv) = 0) => Len(calls) = 1

C5_Witness ==
    /\ Exited
    /\ Len(calls) = 1
    /\ argv.header = <<Tok("a", <<"0">>), <<"b">>, Tok("a", <<" ", "1">>)>>
    /\ headers = << <<(<<"a">>), (<<"1">>)>> >>
    /\ Count({"warn_header"}) = 1

(***************************************************************************)
(* C6-C8: the preview and the arguments of the transport call.             *)
(***************************************************************************)
RECURSIVE PairsTagged(_, _)
\* the <<key, value>> of the lines of the transcript with this tag, in order
PairsTagged(o, tag) ==
    IF o = <<>> THEN <<>>
    ELSE IF Head(o)[1] = tag
         THEN << <<Head(o)[2], Head(o)[3]>> >> \o PairsTagged(Tail(o), tag)
         ELSE PairsTagged(Tail(o), tag)

RECURSIVE WithoutKey(_, _)
WithoutKey(d, k) ==
    IF d = <<>> THEN <<>>
    ELSE IF Head(d)[1] = k THEN WithoutKey(Tail(d), k)
         ELSE <<Head(d)>> \o WithoutKey(Tail(d), k)

Previewed == argv.verbose /\ (pc \in {"transport", "render", "except", "return"}
                              \/ (Exited /\ calls # <<>>))
\* a JSON value was supplied through -j or -f
HasJsonBody ==
    \/ argv.json_data # None /\ IsJson(argv.json_data[1])
    \/ argv.file # None /\ argv.file[1].content # None /\ IsJson(argv.file[1].content[1])

\* C6: in verbose mode, with a JSON body the previewed headers are the user
\* headers other than Content-Type followed by `Content-Type: application/json`,
\* which comes last; with no JSON body they are exactly the user headers.
C6_PreviewedHeaders ==
    Previewed =>
        PairsTagged(out, "preview_header") =
            IF HasJsonBody
            THEN Append(WithoutKey(headers, ContentType), <<ContentType, ApplicationJson>>)
            ELSE headers

\* C7: when the transport is called at most one of the raw body and the JSON
\* body is set; more than one of -d, -j, -f never reaches the transport; one
\* supplied source gives exactly that body, and none gives no body.
C7_OneBodyAtTransport ==
    /\ NumSources(argv) > 1 => calls = <<>>
    /\ \A c \in 1..Len(calls) :
         /\ ~(calls[c].data # None /\ calls[c].json # PyNone)
         /\ NumSources(argv) = 0 => (calls[c].data = None /\ calls[c].json = PyNone)
         /\ argv.data # None => (calls[c].data = argv.data /\ calls[c].json = PyNone)
         /\ argv.json_data # None =>
              /\ calls[c].data = None
              /\ IsJson(argv.json_data[1])
              /\ calls[c].json = Loads(argv.json_data[1])
         /\ argv.file # None =>
              /\ calls[c].data = None
              /\ argv.file[1].content # None
              /\ IsJson(argv.file[1].content[1])
              /\ calls[c].json = Loads(argv.file[1].content[1])

\* C8: the headers handed to the transport are the mapping the -H tokens gave,
\* verbose or not: the preview leaves that mapping as it was, and the entry it
\* injects for display is not in the headers of the call.
C8_TransportHeadersAreUserHeaders ==
    /\ HeadersBuilt => headers = ParseHeaders(argv.header, <<>>)
    /\ \A c \in 1..Len(calls) :
         /\ calls[c].headers = ParseHeaders(argv.header, <<>>)
         /\ \A p \in 1..Len(calls[c].headers) :
                calls[c].headers[p] = <<ContentType, ApplicationJson>> =>
                    \E i \in ColonTokens : IsEntryOf(calls[c].headers[p], argv.header[i])

C8_Witness ==
    /\ Exited
    /\ argv.verbose
    /\ Len(calls) = 1
    /\ final_headers = << <<ContentType, ApplicationJson>> >>
    /\ calls[1].headers = << <<ContentType, (<<"text">>)>> >>

BannerOf(o) == CASE o = "response" -> "success_banner"
                 [] o = "HTTPError" -> "http_error"
                 [] o = "RequestException" -> "network_error"
                 [] o = "Exception" -> "unknown_error"

====
